---------------------------- MODULE Spec2Model ----------------------------
(***************************************************************************)
(* Deserialization and serialization of rustc diagnostics as declared in   *)
(* src/format/diagnostic.rs.  The types carry #[derive(Serialize,          *)
(* Deserialize)]; the model follows the derived visitor: a struct is read  *)
(* from a JSON object, pair by pair in document order, unknown keys are    *)
(* skipped, a repeated key is an error, and after the last pair a field    *)
(* never seen is filled with None when its type is Option and is an error  *)
(* otherwise.  A unit-variant enum is read from a JSON string.             *)
(*                                                                         *)
(* Documents use the encodings rustc emits: a struct is a JSON object and  *)
(* a variant a JSON string.  Numbers are integers small enough that the    *)
(* upper ends of u32 and usize play no part; a negative one is refused.    *)
(***************************************************************************)
EXTENDS Integers, Sequences, FiniteSets, TLC

VARIABLES doc, mode, pc, result, ser, result2

vars == <<doc, mode, pc, result, ser, result2>>

(***************************************************************************)
(* Bounds of the model.                                                    *)
(***************************************************************************)
\* longest spans / children array whose order is enumerated
MaxSeq == 2
\* the depth guard of the parse entry point (configurable; small here)
DepthGuard == 2

(***************************************************************************)
(* JSON values.  An object is the sequence of its key/value pairs in       *)
(* document order.                                                         *)
(***************************************************************************)
JNull == [k |-> "null"]
JStr(s) == [k |-> "str", s |-> s]
JNum(n) == [k |-> "num", n |-> n]
JBool(b) == [k |-> "bool", b |-> b]
JArr(a) == [k |-> "arr", a |-> a]
JObj(o) == [k |-> "obj", o |-> o]
P(key, val) == [key |-> key, val |-> val]

(***************************************************************************)
(* Results and options.                                                    *)
(***************************************************************************)
Ok(v) == [ok |-> TRUE, val |-> v]
Err(e) == [ok |-> FALSE, err |-> e]
None == [some |-> FALSE]
Some(v) == [some |-> TRUE, v |-> v]
NoResult == Err("none")

\* The two builds: permissive is the default one, strict the one with the
\* feature strict_unstable.
Modes == {"permissive", "strict"}

(***************************************************************************)
(* The schema: the fields of each struct in declaration order.  A type is  *)
(* a sequence of constructors, outermost first.  The serde(skip) field     *)
(* __do_not_match_exhaustively is in no field list: it is never read and   *)
(* never written.                                                          *)
(***************************************************************************)
F(name, ty) == [name |-> name, ty |-> ty]

DiagnosticCode ==
    << F("code", <<"str">>),
       F("explanation", <<"opt", "str">>) >>

DiagnosticSpanLine ==
    << F("text", <<"str">>),
       F("highlight_start", <<"usize">>),
       F("highlight_end", <<"usize">>) >>

DiagnosticSpanMacroExpansion ==
    << F("span", <<"struct", "DiagnosticSpan">>),
       F("macro_decl_name", <<"str">>),
       F("def_site_span", <<"opt", "struct", "DiagnosticSpan">>) >>

DiagnosticSpan ==
    << F("file_name", <<"path">>),
       F("byte_start", <<"u32">>),
       F("byte_end", <<"u32">>),
       F("line_start", <<"usize">>),
       F("line_end", <<"usize">>),
       F("column_start", <<"usize">>),
       F("column_end", <<"usize">>),
       F("is_primary", <<"bool">>),
       F("text", <<"vec", "struct", "DiagnosticSpanLine">>),
       F("label", <<"opt", "str">>),
       F("suggested_replacement", <<"opt", "str">>),
       F("suggestion_applicability", <<"opt", "Applicability">>),
       F("expansion", <<"opt", "box", "struct", "DiagnosticSpanMacroExpansion">>) >>

Diagnostic ==
    << F("message", <<"str">>),
       F("code", <<"opt", "struct", "DiagnosticCode">>),
       F("level", <<"DiagnosticLevel">>),
       F("spans", <<"vec", "struct", "DiagnosticSpan">>),
       F("children", <<"vec", "struct", "Diagnostic">>),
       F("rendered", <<"opt", "str">>) >>

Fields(struct) ==
    CASE struct = "DiagnosticCode" -> DiagnosticCode
      [] struct = "DiagnosticSpanLine" -> DiagnosticSpanLine
      [] struct = "DiagnosticSpanMacroExpansion" -> DiagnosticSpanMacroExpansion
      [] struct = "DiagnosticSpan" -> DiagnosticSpan
      [] struct = "Diagnostic" -> Diagnostic

FieldNames(struct) == {Fields(struct)[i].name : i \in DOMAIN Fields(struct)}

FieldType(struct, name) ==
    LET i == CHOOSE j \in DOMAIN Fields(struct) : Fields(struct)[j].name = name
    IN  Fields(struct)[i].ty

(***************************************************************************)
(* The enums: each variant with the string it is written as.               *)
(***************************************************************************)
V(variant, wire) == [variant |-> variant, wire |-> wire]

\* Applicability has no rename: a variant is written as its own name.
ApplicabilityVariants ==
    { V("MachineApplicable", "MachineApplicable"),
      V("HasPlaceholders", "HasPlaceholders"),
      V("MaybeIncorrect", "MaybeIncorrect"),
      V("Unspecified", "Unspecified") }

\* DiagnosticLevel: rename_all = "lowercase", and Ice renamed explicitly.
DiagnosticLevelVariants ==
    { V("Ice", "error: internal compiler error"),
      V("Error", "error"),
      V("Warning", "warning"),
      V("Note", "note"),
      V("Help", "help") }

EnumVal(enum, variant) == [enum |-> enum, variant |-> variant]

\* the ASCII lower-case form of the literals the documents use
Lower(s) ==
    CASE s = "Warning" -> "warning"
      [] s = "ERROR" -> "error"
      [] s = "Ice" -> "ice"
      [] s = "MachineApplicable" -> "machineapplicable"
      [] s = "HasPlaceholders" -> "hasplaceholders"
      [] s = "MaybeIncorrect" -> "maybeincorrect"
      [] s = "Unspecified" -> "unspecified"
      [] s = "SuperApplicable" -> "superapplicable"
      [] s = "Unknown" -> "unknown"
      [] OTHER -> s

\* DecodeApplicability matching the variant names without regard to case
DecodeApplicability_IgnoreCase(s) ==
    IF \E v \in ApplicabilityVariants : Lower(v.wire) = Lower(s)
    THEN Ok(EnumVal("Applicability",
                    (CHOOSE v \in ApplicabilityVariants : Lower(v.wire) = Lower(s)).variant))
    ELSE Ok(EnumVal("Applicability", "Unknown"))

\* Applicability::Unknown is #[serde(other)] in every build.
DecodeApplicability(s) ==
    IF \E v \in ApplicabilityVariants : v.wire = s
    THEN Ok(EnumVal("Applicability",
                    (CHOOSE v \in ApplicabilityVariants : v.wire = s).variant))
    ELSE Ok(EnumVal("Applicability", "Unknown"))

\* DecodeLevel with the Unknown variant compiled into every build
DecodeLevel_Ungated(s, m) ==
    IF \E v \in DiagnosticLevelVariants : v.wire = s
    THEN Ok(EnumVal("DiagnosticLevel",
                    (CHOOSE v \in DiagnosticLevelVariants : v.wire = s).variant))
    ELSE Ok(EnumVal("DiagnosticLevel", "Unknown"))

\* DiagnosticLevel::Unknown is #[serde(other)], and exists only under
\* cfg(not(feature = "strict_unstable")).
DecodeLevel(s, m) ==
    IF \E v \in DiagnosticLevelVariants : v.wire = s
    THEN Ok(EnumVal("DiagnosticLevel",
                    (CHOOSE v \in DiagnosticLevelVariants : v.wire = s).variant))
    ELSE IF m = "permissive"
         THEN Ok(EnumVal("DiagnosticLevel", "Unknown"))
         ELSE Err("UnknownEnumValue")

EncodeApplicability(variant) ==
    IF variant = "Unknown" THEN "Unknown"
    ELSE (CHOOSE v \in ApplicabilityVariants : v.variant = variant).wire

\* EncodeLevel without the explicit rename of Ice
EncodeLevel_NoRename(variant) ==
    IF variant = "Unknown" THEN "unknown"
    ELSE IF variant = "Ice" THEN "ice"
    ELSE (CHOOSE v \in DiagnosticLevelVariants : v.variant = variant).wire

EncodeLevel(variant) ==
    IF variant = "Unknown" THEN "unknown"
    ELSE (CHOOSE v \in DiagnosticLevelVariants : v.variant = variant).wire

(***************************************************************************)
(* The depth guard of the parse entry point.  One counter follows both     *)
(* recursions: it grows by one on entering the children of a diagnostic    *)
(* and on entering the expansion of a span.                                *)
(***************************************************************************)
NestingStep(struct, name) ==
    IF \/ (struct = "Diagnostic" /\ name = "children")
       \/ (struct = "DiagnosticSpan" /\ name = "expansion")
    THEN 1 ELSE 0

\* DepthExceeded refusing the guard limit itself
DepthExceeded_OffByOne(depth) == depth >= DepthGuard

DepthExceeded(depth) == depth > DepthGuard

(***************************************************************************)
(* The derived Deserialize implementations.                                *)
(***************************************************************************)
\* IgnoresUnknownFields had the structs carried serde(deny_unknown_fields)
DeniesUnknownFields(struct) == FALSE

\* No struct carries serde(deny_unknown_fields): an unknown key is skipped.
IgnoresUnknownFields(struct) == TRUE

\* MissingField had the Vec fields carried serde(default)
MissingField_Default(ty) ==
    IF Head(ty) = "opt" THEN Ok(None)
    ELSE IF Head(ty) = "vec" THEN Ok(<<>>)
    ELSE Err("MissingField")

\* MissingField without the None of an Option
MissingField_Required(ty) == Err("MissingField")

\* A field the object never named: Option<T> becomes None, any other type
\* (Vec included) is an error.
MissingField(ty) ==
    IF Head(ty) = "opt" THEN Ok(None) ELSE Err("MissingField")

DeserializeStr(j) ==
    IF j.k = "str" THEN Ok(j.s) ELSE Err("TypeMismatch")

DeserializePath(j) ==
    IF j.k = "str" THEN Ok([path |-> j.s]) ELSE Err("TypeMismatch")

\* u32 and usize: a JSON number that is not negative.
DeserializeUnsigned(j) ==
    IF j.k = "num" /\ j.n >= 0 THEN Ok(j.n) ELSE Err("TypeMismatch")

DeserializeBool(j) ==
    IF j.k = "bool" THEN Ok(j.b) ELSE Err("TypeMismatch")

DeserializeApplicability(j) ==
    IF j.k = "str" THEN DecodeApplicability(j.s) ELSE Err("TypeMismatch")

DeserializeLevel(j, m) ==
    IF j.k = "str" THEN DecodeLevel(j.s, m) ELSE Err("TypeMismatch")

\* Finish rejecting a span whose byte range is reversed
Finish_Validating(struct, acc) ==
    LET missing == {n \in FieldNames(struct) \ DOMAIN acc :
                        ~MissingField(FieldType(struct, n)).ok}
    IN  IF missing # {}
        THEN Err("MissingField")
        ELSE IF struct = "DiagnosticSpan" /\ acc["byte_start"] > acc["byte_end"]
        THEN Err("InvariantViolation")
        ELSE Ok([n \in FieldNames(struct) |->
                    IF n \in DOMAIN acc THEN acc[n]
                    ELSE MissingField(FieldType(struct, n)).val])

\* The struct value built once every pair is read; acc maps the names seen
\* to their values.
Finish(struct, acc) ==
    LET missing == {n \in FieldNames(struct) \ DOMAIN acc :
                        ~MissingField(FieldType(struct, n)).ok}
    IN  IF missing # {}
        THEN Err("MissingField")
        ELSE Ok([n \in FieldNames(struct) |->
                    IF n \in DOMAIN acc THEN acc[n]
                    ELSE MissingField(FieldType(struct, n)).val])

RECURSIVE Deserialize(_, _, _, _)

\* visit_map of a derived struct visitor: the pairs are taken in document
\* order; an unknown key is skipped, a key seen before is an error, a known
\* key has its value deserialized; the first pair to fail ends the visit
\* with its error, and Finish builds the struct when none fails.
VisitMap(struct, pairs, m, depth) ==
    LET rs == { <<i, IF pairs[i].key \notin FieldNames(struct)
                     THEN IF IgnoresUnknownFields(struct)
                          THEN Ok(None) ELSE Err("UnknownField")
                     ELSE IF \E j \in 1..(i - 1) : pairs[j].key = pairs[i].key
                     THEN Err("DuplicateField")
                     ELSE Deserialize(FieldType(struct, pairs[i].key),
                                      pairs[i].val, m,
                                      depth + NestingStep(struct, pairs[i].key))>> :
                i \in DOMAIN pairs }
        bad == { t \in rs : ~t[2].ok }
        seen == { t \in rs : pairs[t[1]].key \in FieldNames(struct) }
    IN  IF bad # {}
        THEN (CHOOSE t \in bad : \A u \in bad : t[1] <= u[1])[2]
        ELSE Finish(struct,
                    [n \in { pairs[t[1]].key : t \in seen } |->
                        (CHOOSE t \in seen : pairs[t[1]].key = n)[2].val])

\* Vec<T>: the elements in input order; the first failing element fails
\* the whole sequence.
VisitSeq(ty, a, m, depth) ==
    LET rs == { <<i, Deserialize(ty, a[i], m, depth)>> : i \in DOMAIN a }
        bad == { t \in rs : ~t[2].ok }
    IN  IF bad # {}
        THEN (CHOOSE t \in bad : \A u \in bad : t[1] <= u[1])[2]
        ELSE Ok([i \in DOMAIN a |-> (CHOOSE t \in rs : t[1] = i)[2].val])

DeserializeStruct(struct, j, m, depth) ==
    IF DepthExceeded(depth) THEN Err("ExcessiveNesting")
    ELSE IF j.k # "obj" THEN Err("TypeMismatch")
    ELSE VisitMap(struct, j.o, m, depth)

DeserializeOption(ty, j, m, depth) ==
    IF j.k = "null" THEN Ok(None)
    ELSE LET r == Deserialize(ty, j, m, depth)
         IN  IF r.ok THEN Ok(Some(r.val)) ELSE r

\* a sequence without the elements equal to their predecessor
Dedup(q) ==
    LET keep == { i \in DOMAIN q : i = 1 \/ q[i] # q[i - 1] }
        nth(k) == CHOOSE i \in keep : Cardinality({ x \in keep : x <= i }) = k
    IN  [k \in 1..Cardinality(keep) |-> q[nth(k)]]

\* DeserializeVec collecting into a deduplicated sequence
DeserializeVec_Dedup(ty, j, m, depth) ==
    IF j.k = "arr"
    THEN LET r == VisitSeq(ty, j.a, m, depth)
         IN  IF r.ok THEN Ok(Dedup(r.val)) ELSE r
    ELSE Err("TypeMismatch")

DeserializeVec(ty, j, m, depth) ==
    IF j.k = "arr" THEN VisitSeq(ty, j.a, m, depth)
    ELSE Err("TypeMismatch")

Deserialize(ty, j, m, depth) ==
    LET h == Head(ty) IN
    CASE h = "str" -> DeserializeStr(j)
      [] h = "path" -> DeserializePath(j)
      [] h \in {"u32", "usize"} -> DeserializeUnsigned(j)
      [] h = "bool" -> DeserializeBool(j)
      [] h = "Applicability" -> DeserializeApplicability(j)
      [] h = "DiagnosticLevel" -> DeserializeLevel(j, m)
      [] h = "opt" -> DeserializeOption(Tail(ty), j, m, depth)
      [] h = "box" -> Deserialize(Tail(ty), j, m, depth)
      [] h = "vec" -> DeserializeVec(Tail(ty), j, m, depth)
      [] h = "struct" -> DeserializeStruct(ty[2], j, m, depth)

\* The parse entry point: one document, one mode, all or nothing.
parse_diagnostic(d, m) == Deserialize(<<"struct", "Diagnostic">>, d, m, 0)

(***************************************************************************)
(* The derived Serialize implementations: every field in declaration       *)
(* order, None written as null, a unit variant as its string.              *)
(***************************************************************************)
RECURSIVE Serialize(_, _)

SerializeStruct(struct, v) ==
    JObj([i \in DOMAIN Fields(struct) |->
            P(Fields(struct)[i].name,
              Serialize(Fields(struct)[i].ty, v[Fields(struct)[i].name]))])

Serialize(ty, v) ==
    LET h == Head(ty) IN
    CASE h = "str" -> JStr(v)
      [] h = "path" -> JStr(v.path)
      [] h \in {"u32", "usize"} -> JNum(v)
      [] h = "bool" -> JBool(v)
      [] h = "Applicability" -> JStr(EncodeApplicability(v.variant))
      [] h = "DiagnosticLevel" -> JStr(EncodeLevel(v.variant))
      [] h = "opt" -> IF v.some THEN Serialize(Tail(ty), v.v) ELSE JNull
      [] h = "box" -> Serialize(Tail(ty), v)
      [] h = "vec" -> JArr([i \in DOMAIN v |-> Serialize(Tail(ty), v[i])])
      [] h = "struct" -> SerializeStruct(ty[2], v)

serialize_diagnostic(v) == Serialize(<<"struct", "Diagnostic">>, v)

(***************************************************************************)
(* Input documents.  Builders first, then the families the initial state   *)
(* draws from.                                                             *)
(***************************************************************************)
Without(obj, key) == JObj(SelectSeq(obj.o, LAMBDA p : p.key # key))

With(obj, key, val) ==
    JObj([i \in DOMAIN obj.o |->
            IF obj.o[i].key = key THEN P(key, val) ELSE obj.o[i]])

Plus(obj, pairs) == JObj(obj.o \o pairs)

InFront(obj, pairs) == JObj(pairs \o obj.o)

SpanLine(text, hs, he) ==
    JObj(<< P("text", JStr(text)),
            P("highlight_start", JNum(hs)),
            P("highlight_end", JNum(he)) >>)

MkSpan(file, bs, be, ls, le, lines) ==
    JObj(<< P("file_name", JStr(file)),
            P("byte_start", JNum(bs)),
            P("byte_end", JNum(be)),
            P("line_start", JNum(ls)),
            P("line_end", JNum(le)),
            P("column_start", JNum(5)),
            P("column_end", JNum(6)),
            P("is_primary", JBool(TRUE)),
            P("text", JArr(lines)) >>)

MkExpansion(span) ==
    JObj(<< P("span", span), P("macro_decl_name", JStr("foo!")) >>)

MkDiag(message, level, spans, children) ==
    JObj(<< P("message", JStr(message)),
            P("level", level),
            P("spans", JArr(spans)),
            P("children", JArr(children)) >>)

MkCode(code) == JObj(<< P("code", JStr(code)) >>)

LevelLits ==
    { "error: internal compiler error", "error", "warning", "note", "help",
      "Warning", "ERROR", "ice", "Ice", "unknown", "failure-note" }

AppLits ==
    { "MachineApplicable", "HasPlaceholders", "MaybeIncorrect", "Unspecified",
      "machineapplicable", "unspecified", "SuperApplicable", "Unknown" }

\* a field left out, written as null, or written with a value
Optional(name, val) == { <<>>, << P(name, JNull) >>, << P(name, val) >> }

\* an unknown key, with a value of each JSON kind
FutureFields ==
    { << P("future_field", JStr("x")) >>,
      << P("future_field", JNull) >>,
      << P("future_field", JObj(<< P("message", JNum(1)) >>)) >>,
      << P("__do_not_match_exhaustively", JArr(<< JNum(1) >>)) >> }

LineOK == SpanLine("let x = 1;", 5, 6)

BaseSpan == MkSpan("src/lib.rs", 10, 11, 1, 1, << LineOK >>)

\* a span with each spelling of the applicability
AppSpan(a) ==
    Plus(BaseSpan, << P("suggested_replacement", JStr("_x")),
                      P("suggestion_applicability", JStr(a)) >>)

\* spans with and without their cross-field relations
ShapeSpans ==
    { MkSpan("src/lib.rs", b[1], b[2], 1, 1, << LineOK >>) :
        b \in { <<5, 5>>, <<11, 10>>, <<0, 7>> } }
    \cup { MkSpan("src/lib.rs", 10, 11, l[1], l[2], l[3]) :
        l \in { <<2, 1, << LineOK >> >>,
                <<1, 2, << LineOK, LineOK >> >>,
                <<1, 2, << LineOK >> >>,
                <<3, 3, << >> >> } }
    \cup { MkSpan("src/lib.rs", 10, 11, 1, 1, << SpanLine("let x = 1;", h[1], h[2]) >>) :
        h \in { <<6, 5>>, <<0, 1>>, <<1, 1>>, <<11, 11>>, <<11, 12>> } }

\* spans an object of which is malformed
BadSpans ==
    { Without(BaseSpan, f) :
        f \in { "file_name", "byte_start", "line_end", "is_primary", "text" } }
    \cup { With(BaseSpan, "byte_start", JStr("10")),
           With(BaseSpan, "byte_end", JNum(-1)),
           With(BaseSpan, "file_name", JNull),
           With(BaseSpan, "text", JNull),
           With(BaseSpan, "is_primary", JNum(1)),
           With(BaseSpan, "text", JArr(<< Without(LineOK, "text") >>)),
           With(BaseSpan, "text", JArr(<< With(LineOK, "highlight_end", JStr("6")) >>)),
           Plus(BaseSpan, << P("suggestion_applicability", JNum(1)) >>),
           Plus(BaseSpan, << P("label", JNum(1)) >>),
           Plus(BaseSpan, << P("expansion", JStr("foo!")) >>),
           Plus(BaseSpan, << P("expansion", JObj(<< P("span", BaseSpan) >>)) >>),
           Plus(BaseSpan, << P("expansion", JObj(<< P("macro_decl_name", JStr("foo!")) >>)) >>),
           Plus(BaseSpan, << P("byte_start", JNum(10)) >>) }

LeafSpans ==
    { BaseSpan }
    \cup { AppSpan(a) : a \in AppLits }
    \cup { Plus(BaseSpan, t) : t \in Optional("label", JStr("unused"))
                                 \cup Optional("suggested_replacement", JStr("_x"))
                                 \cup Optional("suggestion_applicability", JStr("MaybeIncorrect"))
                                 \cup Optional("expansion", MkExpansion(BaseSpan)) }
    \cup { Plus(BaseSpan, t) : t \in FutureFields }
    \cup { InFront(BaseSpan, t) : t \in FutureFields }
    \cup { With(BaseSpan, "text", JArr(<< Plus(LineOK, t) >>)) : t \in FutureFields }
    \cup ShapeSpans
    \cup BadSpans

\* the leaves expansion chains end in
ChainLeaves ==
    { BaseSpan, AppSpan("SuperApplicable"), AppSpan("HasPlaceholders"),
      Without(BaseSpan, "file_name"),
      MkSpan("src/lib.rs", 11, 10, 1, 1, << LineOK >>) }

RECURSIVE ChainSpan(_, _)
\* a span n expansions away from its leaf
ChainSpan(n, leaf) ==
    IF n = 0 THEN leaf
    ELSE Plus(BaseSpan, << P("expansion", MkExpansion(ChainSpan(n - 1, leaf))) >>)

ChainSpans ==
    { ChainSpan(n, leaf) : n \in 1..(DepthGuard + 1), leaf \in ChainLeaves }
    \cup { Plus(BaseSpan, << P("expansion", Plus(MkExpansion(BaseSpan), t)) >>) :
            t \in Optional("def_site_span", BaseSpan)
                  \cup Optional("def_site_span", AppSpan("SuperApplicable"))
                  \cup Optional("def_site_span", ChainSpan(DepthGuard - 1, BaseSpan))
                  \cup Optional("def_site_span", ChainSpan(DepthGuard, BaseSpan))
                  \cup Optional("def_site_span", Without(BaseSpan, "byte_end"))
                  \cup FutureFields }

Spans == LeafSpans \cup ChainSpans

BaseDiag == MkDiag("unused variable: x", JStr("warning"), << >>, << >>)

LevelDiag(l) == MkDiag("mismatched types", JStr(l), << >>, << >>)

RECURSIVE ChildChain(_, _)
\* a diagnostic n children levels above its leaf
ChildChain(n, leaf) ==
    IF n = 0 THEN leaf
    ELSE MkDiag("outer", JStr("error"), << >>, << ChildChain(n - 1, leaf) >>)

\* the elements of the arrays whose order is enumerated
SpanPool ==
    { MkSpan("src/a.rs", 1, 2, 1, 1, << LineOK >>),
      MkSpan("src/b.rs", 3, 4, 1, 1, << LineOK >>),
      Plus(MkSpan("src/c.rs", 5, 6, 1, 1, << LineOK >>),
           << P("suggestion_applicability", JStr("SuperApplicable")) >>) }

ChildPool ==
    { MkDiag("consider using _x", JStr("help"), << >>, << >>),
      MkDiag("#[warn(unused)] on by default", JStr("note"), << >>, << >>),
      MkDiag("see issue", JStr("failure-note"), << >>, << >>) }

RECURSIVE SeqsUpTo(_, _)
SeqsUpTo(S, n) ==
    IF n = 0 THEN { << >> }
    ELSE LET shorter == SeqsUpTo(S, n - 1)
         IN  shorter \cup { Append(q, x) : q \in shorter, x \in S }

BadDiags ==
    { Without(BaseDiag, f) : f \in { "message", "level", "spans", "children" } }
    \cup { With(BaseDiag, "message", JNum(1)),
           With(BaseDiag, "message", JNull),
           With(BaseDiag, "level", JNum(1)),
           With(BaseDiag, "level", JNull),
           With(BaseDiag, "spans", JNull),
           With(BaseDiag, "spans", JObj(<< >>)),
           With(BaseDiag, "children", JStr("none")),
           With(BaseDiag, "children", JArr(<< JStr("note") >>)),
           Plus(BaseDiag, << P("rendered", JNum(1)) >>),
           Plus(BaseDiag, << P("code", JStr("E0308")) >>),
           Plus(BaseDiag, << P("code", JObj(<< >>)) >>),
           Plus(BaseDiag, << P("code", JObj(<< P("explanation", JStr("why")) >>)) >>),
           Plus(BaseDiag, << P("code", JObj(<< P("code", JNull) >>)) >>),
           Plus(BaseDiag, << P("message", JStr("again")) >>),
           Without(LevelDiag("failure-note"), "message"),
           InFront(Without(LevelDiag("failure-note"), "spans"), << P("spans", JNull) >>),
           MkDiag("outer", JStr("failure-note"), << >>, << Without(BaseDiag, "message") >>),
           MkDiag("outer", JStr("error"), << >>,
                  << LevelDiag("failure-note"), Without(BaseDiag, "level") >>),
           MkDiag("outer", JStr("error"), << >>,
                  << Without(BaseDiag, "children"), LevelDiag("failure-note") >>) }

\* the leaves children chains end in
ChainDiags ==
    { BaseDiag, LevelDiag("failure-note"), LevelDiag("Warning"),
      Without(BaseDiag, "spans"),
      Plus(BaseDiag, << P("future_field", JStr("x")) >>),
      MkDiag("in macro", JStr("note"), << ChainSpan(1, BaseSpan) >>, << >>),
      MkDiag("in macro", JStr("note"), << ChainSpan(1, AppSpan("SuperApplicable")) >>, << >>),
      MkDiag("bytes", JStr("note"), << MkSpan("src/lib.rs", 11, 10, 1, 1, << LineOK >>) >>, << >>) }

Docs ==
    { LevelDiag(l) : l \in LevelLits }
    \cup { MkDiag("unused variable: x", JStr("warning"), << >>, << LevelDiag(l) >>) :
            l \in LevelLits }
    \cup { Plus(BaseDiag, t) :
            t \in Optional("code", MkCode("E0308"))
                  \cup Optional("code", Plus(MkCode("E0308"), << P("explanation", JStr("why")) >>))
                  \cup Optional("code", Plus(MkCode("E0308"), << P("explanation", JNull) >>))
                  \cup Optional("code", Plus(MkCode("E0308"), << P("since", JStr("1.0")) >>))
                  \cup Optional("rendered", JStr("warning: unused variable")) }
    \cup { Plus(Plus(BaseDiag, c), r) :
            c \in Optional("code", MkCode("E0308")),
            r \in Optional("rendered", JStr("warning: unused variable")) }
    \cup { Plus(BaseDiag, t) : t \in FutureFields }
    \cup { InFront(BaseDiag, t) : t \in FutureFields }
    \cup { MkDiag("one span", JStr("error"), << s >>, << >>) : s \in Spans }
    \cup { MkDiag("spans", JStr("error"), q, << >>) : q \in SeqsUpTo(SpanPool, MaxSeq) }
    \cup { MkDiag("children", JStr("error"), << >>, q) : q \in SeqsUpTo(ChildPool, MaxSeq) }
    \cup { ChildChain(n, leaf) : n \in 1..(DepthGuard + 1), leaf \in ChainDiags }
    \cup { MkDiag("case", JStr(l), << AppSpan(a) >>, << >>) :
            l \in { "Ice", "Warning", "warning" },
            a \in { "machineapplicable", "MachineApplicable" } }
    \cup BadDiags
    \cup { JStr("warning"), JNull, JArr(<< BaseDiag >>) }

(***************************************************************************)
(* The state machine: a document is parsed under one mode; a parsed tree   *)
(* is serialized; the serialized form is parsed again.                     *)
(***************************************************************************)
Init ==
    /\ doc \in Docs
    /\ mode \in Modes
    /\ pc = "start"
    /\ result = NoResult
    /\ ser = JNull
    /\ result2 = NoResult

Parse ==
    /\ pc = "start"
    /\ result' = parse_diagnostic(doc, mode)
    /\ pc' = IF result'.ok THEN "parsed" ELSE "failed"
    /\ UNCHANGED <<doc, mode, ser, result2>>

SerializeParsed ==
    /\ pc = "parsed"
    /\ ser' = serialize_diagnostic(result.val)
    /\ pc' = "serialized"
    /\ UNCHANGED <<doc, mode, result, result2>>

Reparse ==
    /\ pc = "serialized"
    /\ result2' = parse_diagnostic(ser, mode)
    /\ pc' = "done"
    /\ UNCHANGED <<doc, mode, result, ser>>

Next == Parse \/ SerializeParsed \/ Reparse

Spec == Init /\ [][Next]_vars

(***************************************************************************)
(* Reading the input document and the parsed tree side by side.            *)
(***************************************************************************)
Has(j, key) == j.k = "obj" /\ \E i \in DOMAIN j.o : j.o[i].key = key

Get(j, key) == j.o[CHOOSE i \in DOMAIN j.o : j.o[i].key = key].val

\* the value of a key, null when the object does not name it
Field(j, key) == IF Has(j, key) THEN Get(j, key) ELSE JNull

Elems(j) == IF j.k = "arr" THEN {j.a[i] : i \in DOMAIN j.a} ELSE {}

OtherMode(m) == IF m = "strict" THEN "permissive" ELSE "strict"

Max(S) == CHOOSE x \in S : \A y \in S : y <= x

RECURSIVE Nodes(_, _, _, _)
\* every struct of the parsed tree v with the input object j it was read
\* from and the nesting depth it was read at
Nodes(ty, j, v, d) ==
    LET h == Head(ty) IN
    CASE h = "struct" /\ j.k = "obj" ->
            { [struct |-> ty[2], j |-> j, v |-> v, depth |-> d] }
            \cup UNION { Nodes(FieldType(ty[2], n), Get(j, n), v[n],
                               d + NestingStep(ty[2], n)) :
                         n \in { x \in FieldNames(ty[2]) : Has(j, x) } }
      [] h = "opt" -> IF v.some THEN Nodes(Tail(ty), j, v.v, d) ELSE {}
      [] h = "box" -> Nodes(Tail(ty), j, v, d)
      [] h = "vec" /\ j.k = "arr" ->
            UNION { Nodes(Tail(ty), j.a[i], v[i], d) :
                    i \in DOMAIN j.a \cap DOMAIN v }
      [] OTHER -> {}

TreeNodes == IF result.ok
             THEN Nodes(<<"struct", "Diagnostic">>, doc, result.val, 0)
             ELSE {}

NodesOf(struct) == { n \in TreeNodes : n.struct = struct }

RECURSIVE InputDiags(_)
\* every diagnostic object of an input document, read off the JSON alone
InputDiags(j) ==
    { j } \cup UNION { InputDiags(c) : c \in Elems(Field(j, "children")) }

RECURSIVE InputSpansOf(_)
InputSpansOf(j) ==
    { j }
    \cup (IF Field(j, "expansion").k = "obj"
          THEN InputSpansOf(Field(Field(j, "expansion"), "span"))
               \cup InputSpansOf(Field(Field(j, "expansion"), "def_site_span"))
          ELSE {})

InputSpans(j) ==
    UNION { InputSpansOf(s) :
            s \in UNION { Elems(Field(d, "spans")) : d \in InputDiags(j) } }

KnownLevelLits == { "error: internal compiler error", "error", "warning", "note", "help" }

KnownAppLits == { "MachineApplicable", "HasPlaceholders", "MaybeIncorrect", "Unspecified" }

HasUnknownLevelLit(j) ==
    \E d \in InputDiags(j) :
        Field(d, "level").k = "str" /\ Field(d, "level").s \notin KnownLevelLits

HasUnknownAppLit(j) ==
    \E sp \in InputSpans(j) :
        /\ Field(sp, "suggestion_applicability").k = "str"
        /\ Field(sp, "suggestion_applicability").s \notin KnownAppLits

(***************************************************************************)
(* Claims.                                                                 *)
(***************************************************************************)
ExpectedLevel(s) ==
    CASE s = "error: internal compiler error" -> "Ice"
      [] s = "error" -> "Error"
      [] s = "warning" -> "Warning"
      [] s = "note" -> "Note"
      [] s = "help" -> "Help"
      [] OTHER -> "Unknown"

\* C1: the level of every diagnostic of the tree, top-level or nested: a
\* known literal decodes to its variant in both modes; an unrecognized
\* string decodes to Unknown in permissive mode and fails the parse with
\* UnknownEnumValue in strict mode.
C1_LevelDecoding ==
    pc # "start" =>
        /\ \A n \in NodesOf("Diagnostic") :
              LET s == Get(n.j, "level").s IN
              /\ n.v.level = EnumVal("DiagnosticLevel", ExpectedLevel(s))
              /\ s \notin KnownLevelLits => mode = "permissive"
        /\ (mode = "strict" /\ parse_diagnostic(doc, "permissive").ok) =>
              IF HasUnknownLevelLit(doc)
              THEN result = Err("UnknownEnumValue")
              ELSE result.ok

\* a strict parse failed on the unrecognized level of a nested diagnostic
C1_Witness ==
    /\ pc = "failed"
    /\ mode = "strict"
    /\ result = Err("UnknownEnumValue")
    /\ \E d \in InputDiags(doc) \ {doc} :
          Field(d, "level").k = "str" /\ Field(d, "level").s \notin KnownLevelLits
    /\ Field(doc, "level").s \in KnownLevelLits

\* C2: the suggestion_applicability of every span: "MachineApplicable"
\* decodes to MachineApplicable in both modes; an unrecognized literal
\* decodes to Unknown in permissive mode and fails the whole parse in
\* strict mode.
C2_ApplicabilityStrict ==
    pc # "start" =>
        /\ \A n \in NodesOf("DiagnosticSpan") :
              Field(n.j, "suggestion_applicability").k = "str" =>
                  LET s == Get(n.j, "suggestion_applicability").s IN
                  /\ s = "MachineApplicable" =>
                        n.v.suggestion_applicability =
                            Some(EnumVal("Applicability", "MachineApplicable"))
                  /\ s \notin KnownAppLits =>
                        n.v.suggestion_applicability =
                            Some(EnumVal("Applicability", "Unknown"))
        /\ (mode = "strict" /\ HasUnknownAppLit(doc)) => ~result.ok

RECURSIVE Strip(_, _)
\* the document without the keys the schema does not name, at every object
\* of the tree
Strip(ty, j) ==
    LET h == Head(ty) IN
    CASE h = "struct" /\ j.k = "obj" ->
            LET known == SelectSeq(j.o, LAMBDA p : p.key \in FieldNames(ty[2]))
            IN  JObj([i \in DOMAIN known |->
                        P(known[i].key,
                          Strip(FieldType(ty[2], known[i].key), known[i].val))])
      [] h \in {"opt", "box"} -> Strip(Tail(ty), j)
      [] h = "vec" /\ j.k = "arr" ->
            JArr([i \in DOMAIN j.a |-> Strip(Tail(ty), j.a[i])])
      [] OTHER -> j

StripUnknown(j) == Strip(<<"struct", "Diagnostic">>, j)

\* C3: a field whose name is not in the schema, in any object of the tree,
\* changes nothing in either mode: the document parses to what the
\* document without that field parses to.
C3_UnknownFieldsIgnored ==
    pc # "start" => result = parse_diagnostic(StripUnknown(doc), mode)

\* a document with an unknown field inside a span line was parsed
C3_Witness ==
    /\ pc = "parsed"
    /\ mode = "strict"
    /\ \E sp \in InputSpans(doc) : \E l \in Elems(Field(sp, "text")) :
          Has(l, "future_field")
    /\ result.val.spans[1].text[1] =
          [text |-> "let x = 1;", highlight_start |-> 5, highlight_end |-> 6]

\* C4: at every nesting level spans and children have the length and the
\* order of the input arrays: element i is the parse of input element i.
C4_OrderPreserved ==
    pc # "start" =>
        \A n \in NodesOf("Diagnostic") :
            LET ins == Get(n.j, "spans").a
                inc == Get(n.j, "children").a
            IN  /\ Len(n.v.spans) = Len(ins)
                /\ Len(n.v.children) = Len(inc)
                /\ \A i \in DOMAIN ins :
                      Ok(n.v.spans[i]) =
                          Deserialize(<<"struct", "DiagnosticSpan">>, ins[i],
                                      mode, n.depth)
                /\ \A i \in DOMAIN inc :
                      Ok(n.v.children[i]) =
                          Deserialize(<<"struct", "Diagnostic">>, inc[i],
                                      mode, n.depth + 1)

\* a full-length children array of equal entries was parsed
C4_Witness ==
    /\ pc = "parsed"
    /\ Len(result.val.children) = MaxSeq
    /\ \A i \in DOMAIN result.val.children :
          result.val.children[i] = result.val.children[1]
    /\ Len(Get(doc, "children").a) = MaxSeq

\* C10: enum literals are matched exactly and case-sensitively: a variant
\* is decoded from its own spelling only, and every other string yields
\* Unknown in permissive mode.
C10_CaseSensitive ==
    pc # "start" =>
        /\ \A n \in NodesOf("Diagnostic") :
              LET s == Get(n.j, "level").s
                  got == n.v.level.variant
              IN  /\ got = "Ice" <=> s = "error: internal compiler error"
                  /\ got = "Error" <=> s = "error"
                  /\ got = "Warning" <=> s = "warning"
                  /\ got = "Note" <=> s = "note"
                  /\ got = "Help" <=> s = "help"
                  /\ (mode = "permissive" /\ s \notin KnownLevelLits) =>
                        got = "Unknown"
        /\ \A n \in NodesOf("DiagnosticSpan") :
              Field(n.j, "suggestion_applicability").k = "str" =>
                  LET s == Get(n.j, "suggestion_applicability").s
                      got == n.v.suggestion_applicability.v.variant
                  IN  /\ got = "MachineApplicable" <=> s = "MachineApplicable"
                      /\ got = "HasPlaceholders" <=> s = "HasPlaceholders"
                      /\ got = "MaybeIncorrect" <=> s = "MaybeIncorrect"
                      /\ got = "Unspecified" <=> s = "Unspecified"
                      /\ (mode = "permissive" /\ s \notin KnownAppLits) =>
                            got = "Unknown"

\* "Warning" and "machineapplicable" were both decoded to Unknown
C10_Witness ==
    /\ pc = "parsed"
    /\ mode = "permissive"
    /\ Get(doc, "level").s = "Warning"
    /\ result.val.level.variant = "Unknown"
    /\ \E n \in NodesOf("DiagnosticSpan") :
          /\ Field(n.j, "suggestion_applicability") = JStr("machineapplicable")
          /\ n.v.suggestion_applicability.v.variant = "Unknown"

RECURSIVE SpanDepthIn(_)
\* the longest expansion chain below an input span
SpanDepthIn(j) ==
    LET e == Field(j, "expansion") IN
    IF e.k # "obj" THEN 0
    ELSE 1 + Max({ SpanDepthIn(Field(e, "span")),
                   SpanDepthIn(Field(e, "def_site_span")) })

RECURSIVE DiagDepthIn(_)
\* the deepest nesting, through children and expansions, of an input document
DiagDepthIn(j) ==
    Max({0}
        \cup { SpanDepthIn(sp) : sp \in Elems(Field(j, "spans")) }
        \cup { 1 + DiagDepthIn(c) : c \in Elems(Field(j, "children")) })

OneSpanDoc(sp) == MkDiag("one span", JStr("error"), << sp >>, << >>)

Required(struct) ==
    CASE struct = "Diagnostic" ->
            { <<"message", "str">>, <<"level", "str">>,
              <<"spans", "arr">>, <<"children", "arr">> }
      [] struct = "DiagnosticCode" -> { <<"code", "str">> }
      [] struct = "DiagnosticSpanLine" ->
            { <<"text", "str">>, <<"highlight_start", "num">>,
              <<"highlight_end", "num">> }
      [] struct = "DiagnosticSpanMacroExpansion" ->
            { <<"span", "obj">>, <<"macro_decl_name", "str">> }
      [] struct = "DiagnosticSpan" ->
            { <<"file_name", "str">>, <<"byte_start", "num">>,
              <<"byte_end", "num">>, <<"line_start", "num">>,
              <<"line_end", "num">>, <<"column_start", "num">>,
              <<"column_end", "num">>, <<"is_primary", "bool">>,
              <<"text", "arr">> }

RECURSIVE Defective(_, _)
\* some object of the input tree lacks a required field or gives it a
\* value of the wrong JSON kind; read off the JSON alone
Defective(struct, j) ==
    \/ j.k # "obj"
    \/ \E r \in Required(struct) : Field(j, r[1]).k # r[2]
    \/ /\ struct = "Diagnostic"
       /\ \/ \E c \in Elems(Field(j, "children")) : Defective("Diagnostic", c)
          \/ \E sp \in Elems(Field(j, "spans")) : Defective("DiagnosticSpan", sp)
          \/ /\ Field(j, "code").k # "null"
             /\ Defective("DiagnosticCode", Field(j, "code"))
    \/ /\ struct = "DiagnosticSpan"
       /\ \/ \E l \in Elems(Field(j, "text")) : Defective("DiagnosticSpanLine", l)
          \/ /\ Field(j, "expansion").k # "null"
             /\ Defective("DiagnosticSpanMacroExpansion", Field(j, "expansion"))
    \/ /\ struct = "DiagnosticSpanMacroExpansion"
       /\ \/ Defective("DiagnosticSpan", Field(j, "span"))
          \/ /\ Field(j, "def_site_span").k # "null"
             /\ Defective("DiagnosticSpan", Field(j, "def_site_span"))

\* C6: the mode changes the outcome only for unrecognized enum literals: a
\* document lacking a required field or giving it the wrong JSON type, at
\* any level, fails in either mode, and a failed parse returns no tree.
C6_StructuralFailure ==
    pc # "start" =>
        /\ Defective("Diagnostic", doc) =>
              /\ pc = "failed"
              /\ ~result.ok
              /\ DOMAIN result = {"ok", "err"}
        /\ result # parse_diagnostic(doc, OtherMode(mode)) =>
              /\ HasUnknownLevelLit(doc)
              /\ ~parse_diagnostic(doc, "strict").ok

\* permissive mode failed on a nested diagnostic without its message
\* although the tree also holds an unrecognized level
C6_Witness ==
    /\ pc = "failed"
    /\ mode = "permissive"
    /\ result = Err("MissingField")
    /\ HasUnknownLevelLit(doc)
    /\ \E c \in Elems(Field(doc, "children")) : ~Has(c, "message")

SpanInv(v) ==
    /\ v.byte_start <= v.byte_end
    /\ v.line_start <= v.line_end
    /\ Len(v.text) = v.line_end - v.line_start + 1
    /\ \A i \in DOMAIN v.text :
          /\ 1 <= v.text[i].highlight_start
          /\ v.text[i].highlight_start <= v.text[i].highlight_end
          /\ v.text[i].highlight_end <= Len(v.text[i].text) + 1

SpanInvIn(j) ==
    LET lines == Get(j, "text").a IN
    /\ Get(j, "byte_start").n <= Get(j, "byte_end").n
    /\ Get(j, "line_start").n <= Get(j, "line_end").n
    /\ Len(lines) = Get(j, "line_end").n - Get(j, "line_start").n + 1
    /\ \A i \in DOMAIN lines :
          /\ 1 <= Get(lines[i], "highlight_start").n
          /\ Get(lines[i], "highlight_start").n <= Get(lines[i], "highlight_end").n
          /\ Get(lines[i], "highlight_end").n <= Len(Get(lines[i], "text").s) + 1

\* C7 as stated: every span of a parsed tree has byte_start <= byte_end,
\* line_start <= line_end, line_end - line_start + 1 text entries, and
\* 1 <= highlight_start <= highlight_end <= length(text) + 1 in each.
C7_SpanInvariants ==
    pc # "start" => \A n \in NodesOf("DiagnosticSpan") : SpanInv(n.v)

\* C7 amended: every span of a parsed tree carries the offsets, lines and
\* highlights of the input as they are; nothing is checked, so the
\* relations hold of a parsed span exactly when they hold of the input,
\* and a document breaking them still parses.
C7_SpansTranscribed ==
    pc # "start" =>
        /\ \A n \in NodesOf("DiagnosticSpan") :
              LET lines == Get(n.j, "text").a IN
              /\ n.v.byte_start = Get(n.j, "byte_start").n
              /\ n.v.byte_end = Get(n.j, "byte_end").n
              /\ n.v.line_start = Get(n.j, "line_start").n
              /\ n.v.line_end = Get(n.j, "line_end").n
              /\ Len(n.v.text) = Len(lines)
              /\ \A i \in DOMAIN lines :
                    /\ n.v.text[i].text = Get(lines[i], "text").s
                    /\ n.v.text[i].highlight_start = Get(lines[i], "highlight_start").n
                    /\ n.v.text[i].highlight_end = Get(lines[i], "highlight_end").n
              /\ SpanInv(n.v) <=> SpanInvIn(n.j)
        /\ \A sp \in ShapeSpans : doc = OneSpanDoc(sp) => result.ok

\* a span with byte_start > byte_end at the end of an expansion chain was
\* parsed
C7_Witness ==
    /\ pc = "parsed"
    /\ \E n \in NodesOf("DiagnosticSpan") :
          /\ n.depth > 0
          /\ n.v.byte_start > n.v.byte_end
          /\ ~SpanInv(n.v)

\* C8: parsing a valid document, serializing the tree and parsing the
\* serialized form again succeeds with a tree equal to the first one.
C8_RoundTrip ==
    pc = "done" => result2.ok /\ result2 = result

\* a round trip of a tree with an Unknown level, an Unknown applicability
\* and absent optional fields, which are written as null
C8_Witness ==
    /\ pc = "done"
    /\ result.val.level.variant = "Unknown"
    /\ \E n \in NodesOf("DiagnosticSpan") :
          n.v.suggestion_applicability = Some(EnumVal("Applicability", "Unknown"))
    /\ ~Has(doc, "code")
    /\ result.val.code = None
    /\ Get(ser, "code") = JNull
    /\ Get(ser, "level") = JStr("unknown")

RECURSIVE OmitNulls(_, _)
\* the document with every optional field written as null left out
OmitNulls(ty, j) ==
    LET h == Head(ty) IN
    CASE h = "struct" /\ j.k = "obj" ->
            LET kept == SelectSeq(j.o, LAMBDA p :
                            ~ /\ p.key \in FieldNames(ty[2])
                              /\ Head(FieldType(ty[2], p.key)) = "opt"
                              /\ p.val.k = "null")
            IN  JObj([i \in DOMAIN kept |->
                        P(kept[i].key,
                          IF kept[i].key \in FieldNames(ty[2])
                          THEN OmitNulls(FieldType(ty[2], kept[i].key), kept[i].val)
                          ELSE kept[i].val)])
      [] h \in {"opt", "box"} -> OmitNulls(Tail(ty), j)
      [] h = "vec" /\ j.k = "arr" ->
            JArr([i \in DOMAIN j.a |-> OmitNulls(Tail(ty), j.a[i])])
      [] OTHER -> j

OptionalFields(struct) ==
    { n \in FieldNames(struct) : Head(FieldType(struct, n)) = "opt" }

\* C9: an optional field left out and the same field written as null parse
\* alike, to a value with the field absent; a code object must hold the
\* code string, while its explanation may be missing.
C9_OptionalFields ==
    pc # "start" =>
        /\ result = parse_diagnostic(OmitNulls(<<"struct", "Diagnostic">>, doc), mode)
        /\ \A n \in TreeNodes : \A f \in OptionalFields(n.struct) :
              Field(n.j, f).k = "null" => n.v[f] = None
        /\ \A t \in Optional("code", MkCode("E0308")) \cup Optional("rendered", JStr("r")) :
              doc = Plus(BaseDiag, t) => result.ok
        /\ \A d \in InputDiags(doc) :
              (Field(d, "code").k = "obj" /\ ~Has(Field(d, "code"), "code")) =>
                  ~result.ok
        /\ doc = Plus(BaseDiag, << P("code", MkCode("E0308")) >>) =>
              /\ result.ok
              /\ result.val.code = Some([code |-> "E0308", explanation |-> None])

\* a document with code left out and rendered written as null was parsed
C9_Witness ==
    /\ pc = "parsed"
    /\ ~Has(doc, "code")
    /\ Field(doc, "rendered") = JNull
    /\ Has(doc, "rendered")
    /\ result.val.code = None
    /\ result.val.rendered = None

=============================================================================
